---- MODULE Spec2Model ----
(***************************************************************************)
(* SM9 protocol layer of GmSSL (src/src/sm9_z256_lib.c): signature,        *)
(* KEM, encryption envelope and key exchange.                              *)
(*                                                                         *)
(* The pairing groups are modelled by discrete logarithms in Z_N: a G1     *)
(* point is a pair <<x, y>> that is on the curve iff y = CurveY(x) and     *)
(* then stands for [x]P1; a twist point [k]P2 is the scalar k; an Fp12     *)
(* element e(P1,P2)^k is the scalar k.  SM3 is an oracle: every digest is  *)
(* drawn from DigestVals the first time an input is hashed and repeated    *)
(* for the same input afterwards (variable oracle).                        *)
(***************************************************************************)
EXTENDS Integers, Sequences, FiniteSets, TLC

VARIABLES
    oracle,     \* the SM3 digests fixed so far: pairs <<input, digest>>
    signkey,    \* master public key Ppubs, identity and signing key ds
    sctx,       \* the signer's SM9_SIGN_CTX
    sg,         \* the frame of sm9_do_sign
    sigout,     \* what sm9_sign_finish returned
    vctx,       \* the verifier's SM9_SIGN_CTX
    vf,         \* what sm9_verify_finish or sm9_do_verify returned
    enckey,     \* master public key Ppube, identity and decryption key de
    enc,        \* the frame of sm9_kem_encrypt and of its caller
    encout,     \* what sm9_encrypt or sm9_kem_encrypt returned
    dec,        \* what sm9_decrypt or sm9_kem_decrypt returned
    exchkey,    \* master public key Ppube, both identities and exchange keys
    xa,         \* party A of the key exchange
    xb          \* party B of the key exchange

signVars == <<signkey, sctx, sg, sigout, vctx, vf>>
encVars == <<enckey, enc, encout, dec>>
exchVars == <<exchkey, xa, xb>>
vars == <<oracle, signVars, encVars, exchVars>>

(***************************************************************************)
(* Bounds of the model and program constants                               *)
(***************************************************************************)
\* order of the groups G1, G2, GT (SM9_Z256_N), scaled to a small prime
N == 5
\* digests take the values 0..DigestMax
DigestMax == 1
\* longest message absorbed by update calls
MaxMsgLen == 1
\* the loop of sm9_do_sign is followed for SafetyBound + 1 iterations
SafetyBound == 2
\* the loop of sm9_kem_encrypt is followed for KemRestarts + 1 iterations
KemRestarts == 1
\* the loops of the key exchange are followed for ExchRestarts + 1 iterations
ExchRestarts == 1

SM9_HASH2_PREFIX == 2
SM9_HID_SIGN == 1
SM9_HID_EXCH == 2
SM9_HID_ENC == 3
SM3_DIGEST_SIZE == 32
SM3_HMAC_SIZE == 32
\* marker a finished SM3 context carries: the padding block has been compressed
SM3_PADDED == 256

Fn == 0 .. (N - 1)
FnStar == 1 .. (N - 1)
DigestVals == 0 .. DigestMax
MsgBytes == {0, 1}
IDA == <<65>>
IDB == <<66>>

(***************************************************************************)
(* Byte strings                                                            *)
(***************************************************************************)
Zeros(n) == [i \in 1 .. n |-> 0]

\* big-endian encoding of v < 256 on n bytes
ToBytes(v, n) == [i \in 1 .. n |-> IF i = n THEN v ELSE 0]

\* 256^k mod m for k = 1, 2, 4, 8, 16, 32
W1(m) == 256 % m
W2(m) == (W1(m) * W1(m)) % m
W4(m) == (W2(m) * W2(m)) % m
W8(m) == (W4(m) * W4(m)) % m
W16(m) == (W8(m) * W8(m)) % m
W32(m) == (W16(m) * W16(m)) % m

\* the big-endian value of the k bytes of b from index i on, reduced mod m
M1(b, i, m) == b[i] % m
M2(b, i, m) == (M1(b, i, m) * W1(m) + M1(b, i + 1, m)) % m
M4(b, i, m) == (M2(b, i, m) * W2(m) + M2(b, i + 2, m)) % m
M8(b, i, m) == (M4(b, i, m) * W4(m) + M4(b, i + 4, m)) % m
M16(b, i, m) == (M8(b, i, m) * W8(m) + M8(b, i + 8, m)) % m
M32(b, i, m) == (M16(b, i, m) * W16(m) + M16(b, i + 16, m)) % m
M64(b, i, m) == (M32(b, i, m) * W32(m) + M32(b, i + 32, m)) % m


\* the value of a big-endian string whose leading bytes are zero; 256 stands
\* for every value that does not fit one byte
FromBytes(b) ==
    IF \A i \in 1 .. (Len(b) - 1) : b[i] = 0 THEN b[Len(b)] ELSE 256

Slice(b, from, to) == SubSeq(b, from, to)

mem_is_zero(b, n) == \A i \in 1 .. n : b[i] = 0

RECURSIVE XorByte(_, _)
XorByte(x, y) ==
    IF x = 0 THEN y
    ELSE IF y = 0 THEN x
    ELSE ((x + y) % 2) + 2 * XorByte(x \div 2, y \div 2)

gmssl_memxor(a, b, n) == [i \in 1 .. n |-> XorByte(a[i], b[i])]

RECURSIVE SumBytes(_, _)
SumBytes(b, i) == IF i > Len(b) THEN 0 ELSE b[i] + SumBytes(b, i + 1)

(***************************************************************************)
(* Primitive layer: Fn, G1, G2, Fp12, pairing                              *)
(***************************************************************************)
CurveY(x) == (7 * x + 3) % 256

sm9_z256_point_is_on_curve(P) == P[1] \in Fn /\ P[2] = CurveY(P[1])

\* [k]P1
Pt(k) == <<k % N, CurveY(k % N)>>

\* the scalar the point arithmetic works with: the discrete logarithm of a
\* point of G1, and a value fixed by the coordinates for any other pair
Log(P) == IF sm9_z256_point_is_on_curve(P) THEN P[1] ELSE (P[1] + P[2]) % N

sm9_z256_point_mul(k, P) == Pt(k * Log(P))

sm9_z256_point_add(P, Q) == Pt(Log(P) + Log(Q))

\* twist points are scalars: [k]P2 + Q
sm9_z256_twist_point_mul_generator(k) == k % N

sm9_z256_twist_point_add_full(P, Q) == (P + Q) % N

\* pairing(twist point, point) -> Fp12
sm9_z256_pairing(Q, P) == (Q * Log(P)) % N

sm9_z256_fp12_pow(a, k) == (a * k) % N

sm9_z256_fp12_mul(a, b) == (a + b) % N

sm9_z256_fp12_to_bytes(a) == ToBytes(a, 32 * 12)

sm9_z256_fn_sub(a, b) == (a + N - (b % N)) % N

sm9_z256_fn_is_zero(a) == a = 0

sm9_z256_fn_equ(a, b) == a = b

sm9_z256_fn_to_bytes(a) == ToBytes(a, 32)

\* Hv of GM/T 0044: (Ha mod (n-1)) + 1 of the 64 byte Ha
sm9_z256_fn_from_hash(Ha) == M64(Ha, 1, N - 1) + 1

\* H1(ID || hid, N): a fixed function of the identity into [1, N-1]
sm9_z256_hash1(id, hid) == ((SumBytes(id, 1) + hid) % (N - 1)) + 1

sm9_z256_point_to_uncompressed_octets(P) == <<4>> \o ToBytes(P[1], 32) \o ToBytes(P[2], 32)

\* [ret, P]: the point of 65 octets, -1 unless it starts with 04 and is on the curve
sm9_z256_point_from_uncompressed_octets(b) ==
    LET P == <<FromBytes(Slice(b, 2, 33)), FromBytes(Slice(b, 34, 65))>>
    IN  IF b[1] = 4 /\ sm9_z256_point_is_on_curve(P)
        THEN [ret |-> 1, P |-> P]
        ELSE [ret |-> -1, P |-> P]

\* [ret, a]: the scalar of 32 octets, -1 unless below N
sm9_z256_fn_from_bytes(b) ==
    LET a == FromBytes(b)
    IN  [ret |-> IF a < N THEN 1 ELSE -1, a |-> a]

FnInv(a) == CHOOSE x \in FnStar : (x * a) % N = 1

\* KGC: ds = [ks / (H1(ID||hid) + ks)]P1, defined when H1 + ks # 0 mod N
KGC_derive_sign(ks, id) ==
    Pt(ks * FnInv((sm9_z256_hash1(id, SM9_HID_SIGN) + ks) % N))

\* KGC: de = [ke / (H1(ID||hid) + ke)]P2
KGC_derive_enc(ke, id, hid) ==
    (ke * FnInv((sm9_z256_hash1(id, hid) + ke) % N)) % N

(***************************************************************************)
(* SM3: a context is the byte string absorbed so far                       *)
(***************************************************************************)
sm3_init == <<>>

sm3_update(ctx, data) == ctx \o data

\* the input whose digest sm3_finish(ctx) writes
sm3_finish_input(ctx) == ctx

\* the context sm3_finish leaves behind
sm3_finish_ctx(ctx) == Append(ctx, SM3_PADDED)

DigestBytes(d) == [i \in 1 .. SM3_DIGEST_SIZE |-> d]

\* the digests ds answer the queries qs in order, consistently with the
\* oracle table tbl and with each other
OracleAnswers(tbl, qs, ds) ==
    /\ Len(qs) = Len(ds)
    /\ \A i \in 1 .. Len(qs) :
          /\ \A p \in tbl : p[1] = qs[i] => p[2] = ds[i]
          /\ \A j \in 1 .. Len(qs) : qs[j] = qs[i] => ds[j] = ds[i]

OracleRecord(tbl, qs, ds) == tbl \cup {<<qs[i], ds[i]>> : i \in 1 .. Len(qs)}

ct1 == <<0, 0, 0, 1>>
ct2 == <<0, 0, 0, 2>>

(***************************************************************************)
(* ASN.1 DER, short-form lengths                                           *)
(***************************************************************************)
ASN1_TAG_INTEGER == 2
ASN1_TAG_BIT_STRING == 3
ASN1_TAG_OCTET_STRING == 4
ASN1_TAG_SEQUENCE == 48

asn1_type_to_der(tag, d) == <<tag, Len(d)>> \o d

asn1_octet_string_to_der(d) == asn1_type_to_der(ASN1_TAG_OCTET_STRING, d)

asn1_bit_octets_to_der(d) == asn1_type_to_der(ASN1_TAG_BIT_STRING, <<0>> \o d)

asn1_sequence_to_der(d) == asn1_type_to_der(ASN1_TAG_SEQUENCE, d)

asn1_int_to_der(v) == asn1_type_to_der(ASN1_TAG_INTEGER, <<v>>)

\* [ret, d, rest]: 0 when the input is empty or starts with another tag,
\* -1 when the length is missing, long-form or exceeds the input
asn1_type_from_der(tag, in) ==
    IF Len(in) = 0 \/ in[1] # tag THEN [ret |-> 0, d |-> <<>>, rest |-> in]
    ELSE IF Len(in) < 2 \/ in[2] >= 128 \/ Len(in) < 2 + in[2]
         THEN [ret |-> -1, d |-> <<>>, rest |-> in]
    ELSE [ret |-> 1, d |-> SubSeq(in, 3, 2 + in[2]), rest |-> SubSeq(in, 3 + in[2], Len(in))]

asn1_sequence_from_der(in) == asn1_type_from_der(ASN1_TAG_SEQUENCE, in)

asn1_octet_string_from_der(in) == asn1_type_from_der(ASN1_TAG_OCTET_STRING, in)

\* a BIT STRING of whole octets: the unused-bits octet must be 0
asn1_bit_octets_from_der(in) ==
    LET t == asn1_type_from_der(ASN1_TAG_BIT_STRING, in)
    IN  IF t.ret # 1 THEN t
        ELSE IF Len(t.d) < 1 \/ t.d[1] # 0 THEN [ret |-> -1, d |-> <<>>, rest |-> in]
        ELSE [ret |-> 1, d |-> Tail(t.d), rest |-> t.rest]

\* [ret, v, rest]: a one-octet non-negative INTEGER
asn1_int_from_der(in) ==
    LET t == asn1_type_from_der(ASN1_TAG_INTEGER, in)
    IN  IF t.ret # 1 THEN [ret |-> t.ret, v |-> -1, rest |-> in]
        ELSE IF Len(t.d) # 1 \/ t.d[1] >= 128 THEN [ret |-> -1, v |-> -1, rest |-> in]
        ELSE [ret |-> 1, v |-> t.d[1], rest |-> t.rest]

asn1_length_is_zero(len) == IF len = 0 THEN 1 ELSE -1

asn1_check(b) == IF b THEN 1 ELSE -1

(***************************************************************************)
(* Signature codec                                                         *)
(***************************************************************************)
\* SEQUENCE { h OCTET STRING, S BIT STRING }
sm9_signature_to_der(sig) ==
    LET hbuf == sm9_z256_fn_to_bytes(sig.h)
        Sbuf == sm9_z256_point_to_uncompressed_octets(sig.S)
    IN  asn1_sequence_to_der(asn1_octet_string_to_der(hbuf) \o asn1_bit_octets_to_der(Sbuf))

NoSignature == [h |-> 0, S |-> Pt(0)]

\* [ret, sig, rest]
sm9_signature_from_der(in) ==
    LET seq == asn1_sequence_from_der(in)
        oh == asn1_octet_string_from_der(seq.d)
        bs == asn1_bit_octets_from_der(oh.rest)
        bad == [ret |-> -1, sig |-> NoSignature, rest |-> seq.rest]
    IN  IF seq.ret # 1 THEN [ret |-> seq.ret, sig |-> NoSignature, rest |-> in]
        ELSE IF oh.ret # 1 THEN bad
        ELSE IF bs.ret # 1 THEN bad
        ELSE IF asn1_check(Len(oh.d) = 32) # 1 THEN bad
        ELSE IF asn1_check(Len(bs.d) = 65) # 1 THEN bad
        ELSE IF asn1_length_is_zero(Len(bs.rest)) # 1 THEN bad
        ELSE LET h == sm9_z256_fn_from_bytes(oh.d)
                 S == sm9_z256_point_from_uncompressed_octets(bs.d)
             IN  IF h.ret # 1 \/ S.ret # 1 THEN bad
                 ELSE [ret |-> 1, sig |-> [h |-> h.a, S |-> S.P], rest |-> seq.rest]

(***************************************************************************)
(* Signer                                                                  *)
(***************************************************************************)
\* sm9_sign_init, sm9_verify_init: the context after absorbing the prefix
sm9_sign_init == sm3_update(sm3_init, <<SM9_HASH2_PREFIX>>)

sm9_sign_update(ctx, data) == sm3_update(ctx, data)

\* the frame of sm9_do_sign before it is called: the locals r, g and ctx that
\* one pass of the loop hands to the next; live is the set of locals written
\* since they were last cleared; drawn, w, h are the scalar drawn, the w
\* serialized and the h derived in the last pass
SignIdle ==
    [pc |-> "new", r |-> 0, g |-> 0, ctx |-> <<>>, live |-> {}, iter |-> 0,
     drawn |-> 0, w |-> 0, h |-> 0, S |-> Pt(0), ret |-> 0]

\* sm9_do_sign up to the loop: ctx = *sm3_ctx, A1: g = e(P1, Ppubs)
sm9_do_sign_enter(key, sm3_ctx) ==
    [SignIdle EXCEPT !.pc = "loop", !.ctx = sm3_ctx,
                     !.g = sm9_z256_pairing(key.Ppubs, Pt(1)),
                     !.live = {"ctx", "g"}]

\* the two digest queries of one loop body, in order
sm9_do_sign_queries(f, r) ==
    LET ctx == sm3_update(f.ctx, sm9_z256_fp12_to_bytes(sm9_z256_fp12_pow(f.g, r)))
    IN  <<sm3_finish_input(sm3_update(ctx, ct1)), sm3_finish_input(sm3_update(ctx, ct2))>>

\* one body of the do-while: A3 .. A5 with the scalar r drawn in A2 and the
\* digests d1, d2 of the two sm3_finish calls
sm9_do_sign_iterate(f, r, d1, d2) ==
    LET g == sm9_z256_fp12_pow(f.g, r)
        wbuf == sm9_z256_fp12_to_bytes(g)
        ctx == sm3_update(f.ctx, wbuf)
        tmp_ctx == ctx
        Ha == DigestBytes(d1) \o DigestBytes(d2)
        h == sm9_z256_fn_from_hash(Ha)
    IN  [f EXCEPT !.g = g, !.w = g,
                  !.ctx = sm3_finish_ctx(sm3_update(ctx, ct1)),
                  !.h = h, !.drawn = r,
                  !.r = sm9_z256_fn_sub(r, h),
                  !.iter = f.iter + 1,
                  !.live = f.live \cup {"r", "g", "wbuf", "ctx", "tmp_ctx", "Ha"}]

\* after the loop: A6: S = l * dsA, the clears, return 1
sm9_do_sign_exit(f, key) ==
    [f EXCEPT !.S = sm9_z256_point_mul(f.r, key.ds),
              !.r = 0, !.g = 0,
              !.live = f.live \ {"r", "g", "wbuf", "tmp_ctx", "Ha"},
              !.pc = "ret", !.ret = 1]

\* sm9_z256_fn_rand failed in A2: return -1
sm9_do_sign_rand_fail(f) ==
    [f EXCEPT !.pc = "ret", !.ret = -1]

\* sm9_sign_finish after sm9_do_sign returned: [ret, sig]
sm9_sign_finish_encode(f) ==
    IF f.ret # 1 THEN [ret |-> -1, sig |-> <<>>]
    ELSE [ret |-> 1, sig |-> sm9_signature_to_der([h |-> f.h, S |-> f.S])]

(***************************************************************************)
(* Verifier                                                                *)
(***************************************************************************)
\* the two digest queries of sm9_do_verify
sm9_do_verify_queries(mpk, id, sm3_ctx, sig) ==
    LET g == sm9_z256_pairing(mpk.Ppubs, Pt(1))
        t == sm9_z256_fp12_pow(g, sig.h)
        h1 == sm9_z256_hash1(id, SM9_HID_SIGN)
        P == sm9_z256_twist_point_add_full(sm9_z256_twist_point_mul_generator(h1), mpk.Ppubs)
        u == sm9_z256_pairing(P, sig.S)
        w == sm9_z256_fp12_mul(u, t)
        ctx == sm3_update(sm3_ctx, sm9_z256_fp12_to_bytes(w))
    IN  <<sm3_finish_input(sm3_update(ctx, ct1)), sm3_finish_input(sm3_update(ctx, ct2))>>

\* sm9_do_verify: [ret, h2, w, used, live]; used names the primitive calls
\* that consumed sig->h and sig->S, live the locals not cleared at the return
sm9_do_verify(mpk, id, sm3_ctx, sig, d1, d2) ==
    LET g == sm9_z256_pairing(mpk.Ppubs, Pt(1))
        t == sm9_z256_fp12_pow(g, sig.h)
        h1 == sm9_z256_hash1(id, SM9_HID_SIGN)
        P == sm9_z256_twist_point_add_full(sm9_z256_twist_point_mul_generator(h1), mpk.Ppubs)
        u == sm9_z256_pairing(P, sig.S)
        w == sm9_z256_fp12_mul(u, t)
        Ha == DigestBytes(d1) \o DigestBytes(d2)
        h2 == sm9_z256_fn_from_hash(Ha)
    IN  [ret |-> IF sm9_z256_fn_equ(h2, sig.h) THEN 1 ELSE 0,
         h2 |-> h2, w |-> w,
         used |-> {"fp12_pow(g, h)", "pairing(P, S)"},
         live |-> {"h1", "h2", "g", "t", "u", "w", "P", "wbuf", "ctx", "tmp_ctx", "Ha"}]

NoVerify == [ret |-> -1, h2 |-> 0, w |-> 0, used |-> {}, live |-> {}]

\* sm9_verify_finish handing on what the decoder returned instead of -1
sm9_verify_finish_decoder_ret(sm3_ctx, sig, mpk, id, d1, d2) ==
    LET decoded == sm9_signature_from_der(sig)
    IN  IF decoded.ret # 1
        THEN [ret |-> decoded.ret, called |-> FALSE, dv |-> NoVerify, sm3_ctx |-> sm3_ctx]
        ELSE IF asn1_length_is_zero(Len(decoded.rest)) # 1
        THEN [ret |-> -1, called |-> FALSE, dv |-> NoVerify, sm3_ctx |-> sm3_ctx]
        ELSE LET dv == sm9_do_verify(mpk, id, sm3_ctx, decoded.sig, d1, d2)
             IN  [ret |-> IF dv.ret < 0 THEN -1 ELSE dv.ret, called |-> TRUE, dv |-> dv,
                  sm3_ctx |-> sm3_ctx]

\* a sm9_verify_finish whose sm9_do_verify hashes in ctx->sm3_ctx itself
\* instead of the copy of line 206
sm9_verify_finish_in_place(sm3_ctx, sig, mpk, id, d1, d2) ==
    LET decoded == sm9_signature_from_der(sig)
    IN  IF decoded.ret # 1 \/ asn1_length_is_zero(Len(decoded.rest)) # 1
        THEN [ret |-> -1, called |-> FALSE, dv |-> NoVerify, sm3_ctx |-> sm3_ctx]
        ELSE LET dv == sm9_do_verify(mpk, id, sm3_ctx, decoded.sig, d1, d2)
                 wbuf == sm9_z256_fp12_to_bytes(dv.w)
             IN  [ret |-> IF dv.ret < 0 THEN -1 ELSE dv.ret, called |-> TRUE, dv |-> dv,
                  sm3_ctx |-> IF dv.used = {} THEN sm3_ctx
                              ELSE sm3_finish_ctx(sm3_update(sm3_update(sm3_ctx, wbuf),
                                                             ct1))]

\* sm9_verify_finish: [ret, called, dv, sm3_ctx]; called tells whether
\* sm9_do_verify ran, dv is its record (NoVerify when it was not called),
\* sm3_ctx is ctx->sm3_ctx after the call: sm9_do_verify takes it through a
\* pointer to const and hashes in its copy
sm9_verify_finish(sm3_ctx, sig, mpk, id, d1, d2) ==
    LET decoded == sm9_signature_from_der(sig)
    IN  IF decoded.ret # 1 \/ asn1_length_is_zero(Len(decoded.rest)) # 1
        THEN [ret |-> -1, called |-> FALSE, dv |-> NoVerify, sm3_ctx |-> sm3_ctx]
        ELSE LET dv == sm9_do_verify(mpk, id, sm3_ctx, decoded.sig, d1, d2)
             IN  [ret |-> IF dv.ret < 0 THEN -1 ELSE dv.ret, called |-> TRUE, dv |-> dv,
                  sm3_ctx |-> sm3_ctx]

(***************************************************************************)
(* SM3 KDF and HMAC                                                        *)
(***************************************************************************)
\* domain octet of the HMAC-SM3 queries of the oracle
HMAC_QUERY == 257

KdfBlocks(klen) == (klen + SM3_DIGEST_SIZE - 1) \div SM3_DIGEST_SIZE

\* sm3_kdf_finish hashes Z || ct for ct = 1, 2, ... (four bytes, big-endian)
sm3_kdf_queries(Z, klen) == [i \in 1 .. KdfBlocks(klen) |-> Z \o ToBytes(i, 4)]

\* the klen bytes sm3_kdf_finish writes when the blocks have the digests ds
sm3_kdf_finish(ds, klen) ==
    [i \in 1 .. klen |-> ds[((i - 1) \div SM3_DIGEST_SIZE) + 1]]

sm3_hmac_query(key, data) == <<HMAC_QUERY>> \o key \o data

(***************************************************************************)
(* KEM                                                                     *)
(***************************************************************************)
\* the frame of sm9_kem_encrypt before it is called; mode, m belong to the
\* caller: "kem" for a direct call, "enc" for sm9_encrypt of the plaintext m
KemIdle ==
    [pc |-> "new", mode |-> "none", m |-> <<>>, klen |-> 0, r |-> 0, C |-> Pt(0),
     w |-> 0, K |-> <<>>, live |-> {}, iter |-> 0, drawn |-> 0, ret |-> 0]

\* sm9_kem_encrypt up to the loop, A1: Q = H1(ID||hid,N) * P1 + Ppube
sm9_kem_encrypt_enter(mpk, id, klen, mode, m) ==
    LET r == sm9_z256_hash1(id, SM9_HID_ENC)
    IN  [KemIdle EXCEPT !.pc = "loop", !.mode = mode, !.m = m, !.klen = klen, !.r = r,
                        !.C = sm9_z256_point_add(sm9_z256_point_mul(r, Pt(1)), mpk.Ppube),
                        !.live = {"r"}]

\* the input of the KDF in A6 and B3: x and y of C, w, ID
KemKdfInput(C, w, id) ==
    LET cbuf == sm9_z256_point_to_uncompressed_octets(C)
    IN  SubSeq(cbuf, 2, 65) \o sm9_z256_fp12_to_bytes(w) \o id

\* the digest queries of one body of the loop of sm9_kem_encrypt
sm9_kem_encrypt_queries(f, mpk, id, r) ==
    sm3_kdf_queries(KemKdfInput(sm9_z256_point_mul(r, f.C),
                                sm9_z256_fp12_pow(sm9_z256_pairing(1, mpk.Ppube), r), id),
                    f.klen)

\* one body of the loop: A3 .. A6 with the scalar r drawn in A2 and the
\* digests ds of the KDF blocks
sm9_kem_encrypt_iterate(f, mpk, id, r, ds) ==
    LET C == sm9_z256_point_mul(r, f.C)
        w == sm9_z256_fp12_pow(sm9_z256_pairing(1, mpk.Ppube), r)
    IN  [f EXCEPT !.r = r, !.drawn = r, !.C = C, !.w = w,
                  !.K = sm3_kdf_finish(ds, f.klen),
                  !.iter = f.iter + 1,
                  !.live = f.live \cup {"r", "w", "wbuf", "cbuf", "kdf_ctx"}]

\* after the loop: the clears, A7: return 1
sm9_kem_encrypt_exit(f) ==
    [f EXCEPT !.r = 0, !.w = 0, !.live = f.live \ {"r", "w", "wbuf", "kdf_ctx"},
              !.pc = "ret", !.ret = 1]

\* sm9_z256_fn_rand failed in A2: return -1
sm9_kem_encrypt_rand_fail(f) == [f EXCEPT !.pc = "ret", !.ret = -1]

sm9_kem_decrypt_queries(key, id, C, klen) ==
    sm3_kdf_queries(KemKdfInput(C, sm9_z256_pairing(key.de, C), id), klen)

\* sm9_kem_decrypt: [ret, K, w, live]
sm9_kem_decrypt(key, id, C, klen, ds) ==
    LET w == sm9_z256_pairing(key.de, C)
        K == sm3_kdf_finish(ds, klen)
        all == {"w", "wbuf", "cbuf", "kdf_ctx"}
    IN  IF mem_is_zero(K, klen)
        THEN [ret |-> -1, K |-> K, w |-> w, live |-> all]
        ELSE [ret |-> 1, K |-> K, w |-> w, live |-> all \ {"w", "wbuf", "kdf_ctx"}]

(***************************************************************************)
(* Key exchange                                                            *)
(***************************************************************************)
\* the scalars of the hex strings of the "Only for testing" lines, scaled
\* into Fn
rA_test == 2
rB_test == 3

\* A's frame: sm9_exch_step_1A, then sm9_exch_step_2A; drawn is the value
\* sm9_z256_fn_rand returned
ExchAIdle ==
    [pc |-> "new", drawn |-> 0, rA |-> 0, RA |-> Pt(0), ret |-> 0, RB |-> Pt(0),
     klen |-> 0, G1 |-> 0, G2 |-> 0, G3 |-> 0, sk |-> <<>>, iter |-> 0, live |-> {}]

\* B's frame: sm9_exch_step_1B
ExchBIdle ==
    [pc |-> "new", drawn |-> 0, rB |-> 0, RA |-> Pt(0), ret |-> 0, RB |-> Pt(0),
     klen |-> 0, G1 |-> 0, G2 |-> 0, G3 |-> 0, sk |-> <<>>, iter |-> 0, live |-> {}]

\* sm9_exch_step_1A with a successful draw: A1, A2, the assignment of the
\* test scalar to rA, A3
sm9_exch_step_1A(f, mpk, idB, drawn) ==
    LET h == sm9_z256_hash1(idB, SM9_HID_EXCH)
        Q == sm9_z256_point_add(sm9_z256_point_mul(h, Pt(1)), mpk.Ppube)
        rA == rA_test
    IN  [f EXCEPT !.pc = "sent", !.drawn = drawn, !.rA = rA,
                  !.RA = sm9_z256_point_mul(rA, Q), !.ret = 1]

\* sm9_z256_fn_rand failed in A2: return -1, rA and RA hold the values of A1
sm9_exch_step_1A_rand_fail(f, mpk, idB) ==
    LET h == sm9_z256_hash1(idB, SM9_HID_EXCH)
    IN  [f EXCEPT !.pc = "ret", !.rA = h, !.ret = -1,
                  !.RA = sm9_z256_point_add(sm9_z256_point_mul(h, Pt(1)), mpk.Ppube)]

\* the KDF input of B5 and A7: ID_A, ID_B, x and y of RA and of RB, g1, g2, g3
ExchKdfInput(idA, idB, RA, RB, G1, G2, G3) ==
    LET ta == sm9_z256_point_to_uncompressed_octets(RA)
        tb == sm9_z256_point_to_uncompressed_octets(RB)
    IN  idA \o idB \o SubSeq(ta, 2, 65) \o SubSeq(tb, 2, 65)
            \o sm9_z256_fp12_to_bytes(G1) \o sm9_z256_fp12_to_bytes(G2)
            \o sm9_z256_fp12_to_bytes(G3)

\* sm9_exch_step_1B up to the loop, B1: Q = H1(ID_A||hid,N) * P1 + Ppube
sm9_exch_step_1B_enter(mpk, idA, RA, klen) ==
    LET rB == sm9_z256_hash1(idA, SM9_HID_EXCH)
    IN  [ExchBIdle EXCEPT !.pc = "loop", !.RA = RA, !.klen = klen, !.rB = rB,
                          !.RB = sm9_z256_point_add(sm9_z256_point_mul(rB, Pt(1)), mpk.Ppube),
                          !.live = {"rB"}]

\* B2 .. B4 of one body of the loop: the draw, the assignment of the test
\* scalar to rB, RB = rB * RB, and G1, G2, G3 when RA is on the curve
sm9_exch_step_1B_values(f, mpk, key, drawn) ==
    LET rB == rB_test
        G1 == sm9_z256_pairing(key.deB, f.RA)
    IN  [f EXCEPT !.drawn = drawn, !.rB = rB, !.RB = sm9_z256_point_mul(rB, f.RB),
                  !.G1 = G1,
                  !.G2 = sm9_z256_fp12_pow(sm9_z256_pairing(1, mpk.Ppube), rB),
                  !.G3 = sm9_z256_fp12_pow(G1, rB)]

\* the digest queries of one body of the loop of sm9_exch_step_1B
sm9_exch_step_1B_queries(f, mpk, idA, idB, key, drawn) ==
    LET v == sm9_exch_step_1B_values(f, mpk, key, drawn)
    IN  IF sm9_z256_point_is_on_curve(f.RA)
        THEN sm3_kdf_queries(ExchKdfInput(idA, idB, v.RA, v.RB, v.G1, v.G2, v.G3), f.klen)
        ELSE <<>>

\* one body of the loop with the digests ds of the KDF blocks; RA off the
\* curve returns -1 from inside the loop
sm9_exch_step_1B_iterate(f, mpk, key, drawn, ds) ==
    LET v == sm9_exch_step_1B_values(f, mpk, key, drawn)
    IN  IF ~sm9_z256_point_is_on_curve(f.RA)
        THEN [f EXCEPT !.drawn = drawn, !.rB = v.rB, !.RB = v.RB, !.pc = "ret", !.ret = -1]
        ELSE [v EXCEPT !.sk = sm3_kdf_finish(ds, f.klen), !.iter = f.iter + 1,
                       !.live = f.live \cup {"rB", "G1", "G2", "G3", "g1", "g2", "g3",
                                             "ta", "tb", "kdf_ctx"}]

\* after the loop: the clears, B7: return 1
sm9_exch_step_1B_exit(f) ==
    [f EXCEPT !.rB = 0, !.G1 = 0, !.G2 = 0, !.G3 = 0,
              !.live = f.live \ {"rB", "G1", "G2", "G3", "g1", "g2", "g3",
                                 "ta", "tb", "kdf_ctx"},
              !.pc = "ret", !.ret = 1]

\* sm9_z256_fn_rand failed in B2: return -1
sm9_exch_step_1B_rand_fail(f) == [f EXCEPT !.pc = "ret", !.ret = -1]

\* A5 of one body of the loop of sm9_exch_step_2A
sm9_exch_step_2A_values(f, mpk, key) ==
    LET G2 == sm9_z256_pairing(key.deA, f.RB)
    IN  [f EXCEPT !.G1 = sm9_z256_fp12_pow(sm9_z256_pairing(1, mpk.Ppube), f.rA),
                  !.G2 = G2,
                  !.G3 = sm9_z256_fp12_pow(G2, f.rA)]

\* the digest queries of one body of the loop of sm9_exch_step_2A
sm9_exch_step_2A_queries(f, mpk, idA, idB, key) ==
    LET v == sm9_exch_step_2A_values(f, mpk, key)
    IN  IF sm9_z256_point_is_on_curve(f.RB)
        THEN sm3_kdf_queries(ExchKdfInput(idA, idB, v.RA, v.RB, v.G1, v.G2, v.G3), f.klen)
        ELSE <<>>

\* one body of the loop with the digests ds of the KDF blocks; RB off the
\* curve returns -1 from inside the loop
sm9_exch_step_2A_iterate(f, mpk, key, ds) ==
    LET v == sm9_exch_step_2A_values(f, mpk, key)
    IN  IF ~sm9_z256_point_is_on_curve(f.RB)
        THEN [f EXCEPT !.pc = "ret", !.ret = -1]
        ELSE [v EXCEPT !.sk = sm3_kdf_finish(ds, f.klen), !.iter = f.iter + 1,
                       !.live = f.live \cup {"G1", "G2", "G3", "g1", "g2", "g3",
                                             "ta", "tb", "kdf_ctx"}]

\* after the loop: the clears, return 1
sm9_exch_step_2A_exit(f) ==
    [f EXCEPT !.G1 = 0, !.G2 = 0, !.G3 = 0,
              !.live = f.live \ {"r", "G1", "G2", "G3", "g1", "g2", "g3",
                                 "ta", "tb", "kdf_ctx"},
              !.pc = "ret", !.ret = 1]

(***************************************************************************)
(* Encryption envelope and ciphertext codec                                *)
(***************************************************************************)
\* the scaled SM9_MAX_PLAINTEXT_SIZE
SM9_MAX_PLAINTEXT_SIZE == 1

SM9_ENC_TYPE_XOR == 0

\* the size of the key buffers K of sm9_do_encrypt and k of sm9_do_decrypt
EnvelopeKeySize == SM9_MAX_PLAINTEXT_SIZE + 32

\* sm9_do_encrypt after sm9_kem_encrypt returned 1 with the key K and the
\* HMAC digest dh: [ret, C1, c2, c3, live]
sm9_do_encrypt_seal(K, C1, in, dh) ==
    LET inlen == Len(in)
        c2 == gmssl_memxor(K, in, inlen)
    IN  [ret |-> 1, C1 |-> C1, c2 |-> c2, c3 |-> DigestBytes(dh), live |-> {"K"}]

sm9_do_encrypt_query(K, in) ==
    LET inlen == Len(in)
    IN  sm3_hmac_query(SubSeq(K, inlen + 1, inlen + SM3_HMAC_SIZE), gmssl_memxor(K, in, inlen))

\* SEQUENCE { EnType INTEGER, C1 BIT STRING, C3 OCTET STRING, CipherText OCTET STRING }
sm9_ciphertext_to_der(en_type, C1, c2, c3) ==
    asn1_sequence_to_der(asn1_int_to_der(en_type)
        \o asn1_bit_octets_to_der(sm9_z256_point_to_uncompressed_octets(C1))
        \o asn1_octet_string_to_der(c3)
        \o asn1_octet_string_to_der(c2))

NoCiphertext == [C1 |-> Pt(0), c2 |-> <<>>, c3 |-> <<>>]

\* a decoder that accepts every EnType: the test of line 451 left out
sm9_ciphertext_from_der_any_type(in) ==
    LET seq == asn1_sequence_from_der(in)
        ty == asn1_int_from_der(seq.d)
        c1 == asn1_bit_octets_from_der(ty.rest)
        c3 == asn1_octet_string_from_der(c1.rest)
        c2 == asn1_octet_string_from_der(c3.rest)
        bad == [ret |-> -1, ct |-> NoCiphertext, rest |-> seq.rest]
    IN  IF seq.ret # 1 THEN [ret |-> seq.ret, ct |-> NoCiphertext, rest |-> in]
        ELSE IF ty.ret # 1 THEN bad
        ELSE IF c1.ret # 1 THEN bad
        ELSE IF c3.ret # 1 THEN bad
        ELSE IF c2.ret # 1 THEN bad
        ELSE IF asn1_length_is_zero(Len(c2.rest)) # 1 THEN bad
        ELSE IF Len(c1.d) # 65 THEN bad
        ELSE IF Len(c3.d) # SM3_HMAC_SIZE THEN bad
        ELSE LET P == sm9_z256_point_from_uncompressed_octets(c1.d)
             IN  IF P.ret # 1 THEN bad
                 ELSE [ret |-> 1, ct |-> [C1 |-> P.P, c2 |-> c2.d, c3 |-> c3.d],
                       rest |-> seq.rest]

\* sm9_ciphertext_from_der: [ret, ct, rest]
sm9_ciphertext_from_der(in) ==
    LET seq == asn1_sequence_from_der(in)
        ty == asn1_int_from_der(seq.d)
        c1 == asn1_bit_octets_from_der(ty.rest)
        c3 == asn1_octet_string_from_der(c1.rest)
        c2 == asn1_octet_string_from_der(c3.rest)
        bad == [ret |-> -1, ct |-> NoCiphertext, rest |-> seq.rest]
    IN  IF seq.ret # 1 THEN [ret |-> seq.ret, ct |-> NoCiphertext, rest |-> in]
        ELSE IF ty.ret # 1 THEN bad
        ELSE IF c1.ret # 1 THEN bad
        ELSE IF c3.ret # 1 THEN bad
        ELSE IF c2.ret # 1 THEN bad
        ELSE IF asn1_length_is_zero(Len(c2.rest)) # 1 THEN bad
        ELSE IF ty.v # SM9_ENC_TYPE_XOR THEN bad
        ELSE IF Len(c1.d) # 65 THEN bad
        ELSE IF Len(c3.d) # SM3_HMAC_SIZE THEN bad
        ELSE LET P == sm9_z256_point_from_uncompressed_octets(c1.d)
             IN  IF P.ret # 1 THEN bad
                 ELSE [ret |-> 1, ct |-> [C1 |-> P.P, c2 |-> c2.d, c3 |-> c3.d],
                       rest |-> seq.rest]

\* the digest queries of sm9_do_decrypt: the KDF blocks, then the HMAC
sm9_do_decrypt_queries(key, id, ct, ds) ==
    LET kq == sm9_kem_decrypt_queries(key, id, ct.C1, EnvelopeKeySize)
        k == sm3_kdf_finish(ds, EnvelopeKeySize)
        c2len == Len(ct.c2)
    IN  IF c2len > SM9_MAX_PLAINTEXT_SIZE THEN <<>>
        ELSE IF mem_is_zero(k, EnvelopeKeySize) THEN kq
        ELSE Append(kq, sm3_hmac_query(SubSeq(k, c2len + 1, c2len + SM3_HMAC_SIZE), ct.c2))

\* a decryption that writes C2 XOR K1 to out before it compares the tag:
\* line 384 moved before line 380
sm9_do_decrypt_xor_first(key, id, ct, out, ds, dh) ==
    LET c2len == Len(ct.c2)
        kem == sm9_kem_decrypt(key, id, ct.C1, EnvelopeKeySize, ds)
        mac == DigestBytes(dh)
        written == gmssl_memxor(kem.K, ct.c2, c2len) \o SubSeq(out, c2len + 1, Len(out))
    IN  IF c2len > SM9_MAX_PLAINTEXT_SIZE
        THEN [ret |-> -1, out |-> out, step |-> "size", live |-> {}]
        ELSE IF kem.ret # 1
        THEN [ret |-> -1, out |-> out, step |-> "kem", live |-> kem.live]
        ELSE IF ct.c3 # mac
        THEN [ret |-> -1, out |-> written, step |-> "mac",
              live |-> kem.live \cup {"k", "mac"}]
        ELSE [ret |-> 1, out |-> written, step |-> "done",
              live |-> kem.live \cup {"k", "mac"}]

\* sm9_do_decrypt into the buffer out: [ret, out, step, live]; step names
\* the place of the return
sm9_do_decrypt(key, id, ct, out, ds, dh) ==
    LET c2len == Len(ct.c2)
        kem == sm9_kem_decrypt(key, id, ct.C1, EnvelopeKeySize, ds)
        mac == DigestBytes(dh)
    IN  IF c2len > SM9_MAX_PLAINTEXT_SIZE
        THEN [ret |-> -1, out |-> out, step |-> "size", live |-> {}]
        ELSE IF kem.ret # 1
        THEN [ret |-> -1, out |-> out, step |-> "kem", live |-> kem.live]
        ELSE IF ct.c3 # mac
        THEN [ret |-> -1, out |-> out, step |-> "mac", live |-> kem.live \cup {"k", "mac"}]
        ELSE [ret |-> 1,
              out |-> gmssl_memxor(kem.K, ct.c2, c2len) \o SubSeq(out, c2len + 1, Len(out)),
              step |-> "done", live |-> kem.live \cup {"k", "mac"}]

\* a decryption that does not look at what follows the SEQUENCE: the
\* asn1_length_is_zero(inlen) of line 503 left out
sm9_decrypt_ignore_rest(key, id, in, hasout, out, ds, dh) ==
    LET d == sm9_ciphertext_from_der(in)
    IN  IF d.ret # 1
        THEN [ret |-> -1, outlen |-> -1, out |-> out, step |-> "decode", live |-> {}]
        ELSE IF ~hasout
        THEN [ret |-> 1, outlen |-> Len(d.ct.c2), out |-> out, step |-> "length", live |-> {}]
        ELSE LET r == sm9_do_decrypt(key, id, d.ct, out, ds, dh)
             IN  [ret |-> r.ret, outlen |-> Len(d.ct.c2), out |-> r.out, step |-> r.step,
                  live |-> r.live]

\* sm9_decrypt of the bytes in into the buffer out (hasout: out is not NULL):
\* [ret, outlen, out, step, live]
sm9_decrypt(key, id, in, hasout, out, ds, dh) ==
    LET d == sm9_ciphertext_from_der(in)
    IN  IF d.ret # 1 \/ asn1_length_is_zero(Len(d.rest)) # 1
        THEN [ret |-> -1, outlen |-> -1, out |-> out, step |-> "decode", live |-> {}]
        ELSE IF ~hasout
        THEN [ret |-> 1, outlen |-> Len(d.ct.c2), out |-> out, step |-> "length", live |-> {}]
        ELSE LET r == sm9_do_decrypt(key, id, d.ct, out, ds, dh)
             IN  [ret |-> r.ret, outlen |-> Len(d.ct.c2), out |-> r.out, step |-> r.step,
                  live |-> r.live]

\* how the bytes or the structure handed to the verifier were made
Source(kind, h, S, mut) == [kind |-> kind, h |-> h, S |-> S, mut |-> mut]

\* the verifier: again holds the return values of further calls of
\* sm9_verify_finish with the same arguments
VerifyIdle ==
    [pc |-> "new", ret |-> 0, in |-> <<>>, src |-> Source("none", 0, Pt(0), "none"),
     called |-> FALSE, dv |-> NoVerify, again |-> <<>>]

(***************************************************************************)
(* Idle values of the three schemes                                        *)
(***************************************************************************)
\* the caller's output buffer before sm9_decrypt
OutBuf0 == [i \in 1 .. SM9_MAX_PLAINTEXT_SIZE |-> 255]

\* what sm9_encrypt or a direct sm9_kem_encrypt handed back; K is the key of
\* the KEM, live the locals of sm9_do_encrypt left uncleared
NoEncOut ==
    [ret |-> 0, der |-> <<>>, C1 |-> Pt(0), c2 |-> <<>>, c3 |-> <<>>, K |-> <<>>,
     live |-> {}]

\* how a ciphertext handed to the decoder or to the decryption was made: the
\* EnType, the point P and the shape of the C1 field, the byte d3 and the shape
\* of the C3 field, the C2 field, and the damage to the DER
CtSource(en_type, P, c1shape, d3, c3shape, c2, mut) ==
    [en_type |-> en_type, P |-> P, c1shape |-> c1shape, d3 |-> d3,
     c3shape |-> c3shape, c2 |-> c2, mut |-> mut]

DecIdle ==
    [pc |-> "new", kind |-> "none", tamper |-> "none", hasout |-> TRUE, ret |-> 0,
     outlen |-> 0, out |-> OutBuf0, step |-> "none", K |-> <<>>, live |-> {},
     src |-> CtSource(0, Pt(0), "exact", 0, "exact", <<>>, "none")]

EncKeys ==
    {[ke |-> ke, id |-> IDB, Ppube |-> Pt(ke), de |-> KGC_derive_enc(ke, IDB, SM9_HID_ENC)] :
        ke \in {k \in FnStar : (sm9_z256_hash1(IDB, SM9_HID_ENC) + k) % N # 0}}

EncIdle ==
    /\ enckey = [ke |-> 1, id |-> IDB, Ppube |-> Pt(1), de |-> 1]
    /\ enc = KemIdle
    /\ encout = NoEncOut
    /\ dec = DecIdle

SignIdleVars ==
    /\ signkey = [ks |-> 1, id |-> IDA, Ppubs |-> 1, ds |-> Pt(1)]
    /\ sctx = <<>>
    /\ sg = SignIdle
    /\ sigout = [ret |-> 0, sig |-> <<>>]
    /\ vctx = <<>>
    /\ vf = VerifyIdle

ExchIdle ==
    /\ exchkey = [ke |-> 1, Ppube |-> Pt(1), deA |-> 1, deB |-> 1]
    /\ xa = ExchAIdle
    /\ xb = ExchBIdle

(***************************************************************************)
(* State machine of the signature scheme                                   *)
(***************************************************************************)
SignKeys ==
    {[ks |-> ks, id |-> id, Ppubs |-> sm9_z256_twist_point_mul_generator(ks),
      ds |-> KGC_derive_sign(ks, id)] :
        <<ks, id>> \in {p \in FnStar \X {IDA} :
                          (sm9_z256_hash1(p[2], SM9_HID_SIGN) + p[1]) % N # 0}}

InitSign ==
    /\ EncIdle /\ ExchIdle
    /\ oracle = {}
    /\ signkey \in SignKeys
    /\ sctx = <<>>
    /\ sg = SignIdle
    /\ sigout = [ret |-> 0, sig |-> <<>>]
    /\ vctx = <<>>
    /\ vf = VerifyIdle

\* sm9_sign_init(ctx)
SignInit ==
    /\ sg.pc = "new"
    /\ sctx' = sm9_sign_init
    /\ sg' = [sg EXCEPT !.pc = "absorb"]
    /\ UNCHANGED <<oracle, signkey, sigout, vctx, vf, encVars, exchVars>>

\* sm9_sign_update(ctx, data, 1)
SignUpdate ==
    /\ sg.pc = "absorb"
    /\ Len(sctx) <= MaxMsgLen
    /\ \E b \in MsgBytes : sctx' = sm9_sign_update(sctx, <<b>>)
    /\ UNCHANGED <<oracle, signkey, sg, sigout, vctx, vf, encVars, exchVars>>

\* sm9_sign_finish calls sm9_do_sign, which reaches its loop
SignFinishEnter ==
    /\ sg.pc = "absorb"
    /\ sg' = sm9_do_sign_enter(signkey, sctx)
    /\ UNCHANGED <<oracle, signkey, sctx, sigout, vctx, vf, encVars, exchVars>>

\* one pass of the loop of sm9_do_sign with a successful draw; when l # 0 the
\* call goes on to its return and sm9_sign_finish encodes the signature
SignIterate ==
    /\ sg.pc = "loop"
    /\ sg.iter <= SafetyBound
    /\ \E r \in FnStar, d1 \in DigestVals, d2 \in DigestVals :
          LET f == sm9_do_sign_iterate(sg, r, d1, d2)
              qs == sm9_do_sign_queries(sg, r)
              done == sm9_do_sign_exit(f, signkey)
          IN  /\ OracleAnswers(oracle, qs, <<d1, d2>>)
              /\ oracle' = OracleRecord(oracle, qs, <<d1, d2>>)
              /\ IF sm9_z256_fn_is_zero(f.r)
                 THEN sg' = f /\ UNCHANGED sigout
                 ELSE sg' = done /\ sigout' = sm9_sign_finish_encode(done)
    /\ UNCHANGED <<signkey, sctx, vctx, vf, encVars, exchVars>>

\* the draw of the loop fails
SignRandFail ==
    /\ sg.pc = "loop"
    /\ sg.iter <= SafetyBound
    /\ sg' = sm9_do_sign_rand_fail(sg)
    /\ sigout' = sm9_sign_finish_encode(sg')
    /\ UNCHANGED <<oracle, signkey, sctx, vctx, vf, encVars, exchVars>>

\* sm9_verify_init(ctx)
VerifyInit ==
    /\ vf.pc = "new"
    /\ vctx' = sm9_sign_init
    /\ vf' = [vf EXCEPT !.pc = "absorb"]
    /\ UNCHANGED <<oracle, signkey, sctx, sg, sigout, encVars, exchVars>>

\* sm9_verify_update(ctx, data, 1)
VerifyUpdate ==
    /\ vf.pc = "absorb"
    /\ Len(vctx) <= MaxMsgLen
    /\ \E b \in MsgBytes : vctx' = sm9_sign_update(vctx, <<b>>)
    /\ UNCHANGED <<oracle, signkey, sctx, sg, sigout, vf, encVars, exchVars>>

\* the verifier absorbs the next byte of the signed message
VerifySameUpdate ==
    /\ Len(vctx) < Len(sctx)
    /\ VerifyUpdate
    /\ vctx'[Len(vctx')] = sctx[Len(vctx')]

\* sm9_verify_finish(ctx, in, mpk, id) on the bytes in; kind, h, S, mut tell
\* how the caller built them
VerifyFinish(in, kind, h, S, mut) ==
    /\ vf.pc = "absorb"
    /\ \E d1 \in DigestVals, d2 \in DigestVals :
          LET res == sm9_verify_finish(vctx, in, signkey, signkey.id, d1, d2)
              decoded == sm9_signature_from_der(in)
              qs == IF res.called
                    THEN sm9_do_verify_queries(signkey, signkey.id, vctx, decoded.sig)
                    ELSE <<>>
              ds == IF res.called THEN <<d1, d2>> ELSE <<>>
          IN  /\ res.called \/ (d1 = 0 /\ d2 = 0)
              /\ OracleAnswers(oracle, qs, ds)
              /\ oracle' = OracleRecord(oracle, qs, ds)
              /\ vf' = [pc |-> "ret", ret |-> res.ret, in |-> in,
                        src |-> Source(kind, h, S, mut),
                        called |-> res.called, dv |-> res.dv, again |-> <<>>]
              /\ vctx' = res.sm3_ctx
    /\ UNCHANGED <<signkey, sctx, sg, sigout, encVars, exchVars>>

\* the verifier is handed the signature sm9_sign_finish produced
VerifyOwn ==
    /\ sigout.ret = 1
    /\ VerifyFinish(sigout.sig, "own", sg.h, sg.S, "none")

NextSign ==
    \/ SignInit
    \/ SignUpdate
    \/ SignFinishEnter
    \/ SignIterate
    \/ SignRandFail
    \/ (sg.pc = "ret" /\ VerifyInit)
    \/ VerifySameUpdate
    \/ VerifyOwn

SpecSign == InitSign /\ [][NextSign]_vars

(***************************************************************************)
(* The verifier on inputs of any shape                                     *)
(***************************************************************************)
\* a pair of coordinates that is not on the curve
OffCurve == <<1, CurveY(1) + 1>>

SigScalars == 0 .. N
SigPoints == {Pt(k) : k \in FnStar} \cup {OffCurve}
Mutations ==
    {"none", "trailing", "inner_trailing", "truncated", "bad_tag", "empty",
     "short_h", "bad_point_tag"}

\* the DER of {h, S}, well-formed (none) or damaged in one of the ways a
\* decoder has to reject
ForgedDer(h, S, mut) ==
    LET hbuf == sm9_z256_fn_to_bytes(h)
        Sbuf == sm9_z256_point_to_uncompressed_octets(S)
        body == asn1_octet_string_to_der(hbuf) \o asn1_bit_octets_to_der(Sbuf)
        good == asn1_sequence_to_der(body)
    IN  CASE mut = "none" -> good
          [] mut = "trailing" -> good \o <<0>>
          [] mut = "inner_trailing" -> asn1_sequence_to_der(body \o <<0>>)
          [] mut = "truncated" -> SubSeq(good, 1, Len(good) - 1)
          [] mut = "bad_tag" -> <<ASN1_TAG_SEQUENCE + 1>> \o Tail(good)
          [] mut = "empty" -> <<>>
          [] mut = "short_h" ->
                asn1_sequence_to_der(asn1_octet_string_to_der(Tail(hbuf))
                                        \o asn1_bit_octets_to_der(Sbuf))
          [] mut = "bad_point_tag" ->
                asn1_sequence_to_der(asn1_octet_string_to_der(hbuf)
                                        \o asn1_bit_octets_to_der(<<5>> \o Tail(Sbuf)))

InitVerify ==
    /\ EncIdle /\ ExchIdle
    /\ oracle = {}
    /\ signkey \in SignKeys
    /\ sctx = <<>>
    /\ sg = SignIdle
    /\ sigout = [ret |-> 0, sig |-> <<>>]
    /\ vctx = <<>>
    /\ vf = VerifyIdle

\* sm9_verify_finish on bytes made by anyone
VerifyForged ==
    \E h \in SigScalars, S \in SigPoints, mut \in Mutations :
        VerifyFinish(ForgedDer(h, S, mut), "forged", h, S, mut)

\* sm9_do_verify called with a signature structure made by anyone
DoVerifyStruct ==
    /\ vf.pc = "absorb"
    /\ \E h \in SigScalars, S \in SigPoints, d1 \in DigestVals, d2 \in DigestVals :
          LET sig == [h |-> h, S |-> S]
              dv == sm9_do_verify(signkey, signkey.id, vctx, sig, d1, d2)
              qs == sm9_do_verify_queries(signkey, signkey.id, vctx, sig)
          IN  /\ OracleAnswers(oracle, qs, <<d1, d2>>)
              /\ oracle' = OracleRecord(oracle, qs, <<d1, d2>>)
              /\ vf' = [pc |-> "ret", ret |-> dv.ret, in |-> <<>>,
                        src |-> Source("struct", h, S, "none"),
                        called |-> TRUE, dv |-> dv, again |-> <<>>]
    /\ UNCHANGED <<signkey, sctx, sg, sigout, vctx, encVars, exchVars>>

NextVerify ==
    \/ VerifyInit
    \/ VerifyUpdate
    \/ VerifyForged
    \/ DoVerifyStruct

SpecVerify == InitVerify /\ [][NextVerify]_vars

(***************************************************************************)
(* The contexts across the finishing calls                                 *)
(***************************************************************************)
InitFinish ==
    /\ EncIdle /\ ExchIdle
    /\ oracle = {}
    /\ signkey \in {k \in SignKeys : k.ks = 1}
    /\ sctx = <<>>
    /\ sg = SignIdle
    /\ sigout = [ret |-> 0, sig |-> <<>>]
    /\ vctx = <<>>
    /\ vf = VerifyIdle

\* sm9_verify_finish called once more with the arguments of the first call
VerifyAgain ==
    /\ vf.pc = "ret"
    /\ vf.again = <<>>
    /\ \E d1 \in DigestVals, d2 \in DigestVals :
          LET res == sm9_verify_finish(vctx, vf.in, signkey, signkey.id, d1, d2)
              decoded == sm9_signature_from_der(vf.in)
              qs == IF res.called
                    THEN sm9_do_verify_queries(signkey, signkey.id, vctx, decoded.sig)
                    ELSE <<>>
              ds == IF res.called THEN <<d1, d2>> ELSE <<>>
          IN  /\ res.called \/ (d1 = 0 /\ d2 = 0)
              /\ OracleAnswers(oracle, qs, ds)
              /\ oracle' = OracleRecord(oracle, qs, ds)
              /\ vf' = [vf EXCEPT !.again = <<res.ret>>]
              /\ vctx' = res.sm3_ctx
    /\ UNCHANGED <<signkey, sctx, sg, sigout, encVars, exchVars>>

NextFinish ==
    \/ (vf.pc = "new" /\ SignInit)
    \/ SignUpdate
    \/ SignFinishEnter
    \/ SignIterate
    \/ SignRandFail
    \/ (sg.pc = "new" /\ VerifyInit)
    \/ VerifyUpdate
    \/ VerifyForged
    \/ VerifyAgain

SpecFinish == InitFinish /\ [][NextFinish]_vars

(***************************************************************************)
(* State machine of the KEM and the encryption envelope                    *)
(***************************************************************************)
Plaintexts ==
    UNION {[1 .. n -> MsgBytes] : n \in 0 .. SM9_MAX_PLAINTEXT_SIZE}
        \cup {Zeros(SM9_MAX_PLAINTEXT_SIZE + 1)}

KemLens == {1, SM3_DIGEST_SIZE + 1}

Tampers == {"none", "c3", "c2"}

InitEnc ==
    /\ SignIdleVars /\ ExchIdle
    /\ oracle = {}
    /\ enckey \in EncKeys
    /\ enc = KemIdle
    /\ encout = NoEncOut
    /\ dec = DecIdle

\* sm9_encrypt(mpk, id, m): the size check, then sm9_do_encrypt calls
\* sm9_kem_encrypt, which reaches its loop
EncryptStart ==
    /\ enc.pc = "new"
    /\ \E m \in Plaintexts :
          IF Len(m) > SM9_MAX_PLAINTEXT_SIZE
          THEN /\ enc' = [KemIdle EXCEPT !.pc = "ret", !.mode = "enc", !.m = m, !.ret = -1]
               /\ encout' = [NoEncOut EXCEPT !.ret = -1]
          ELSE /\ enc' = sm9_kem_encrypt_enter(enckey, enckey.id, EnvelopeKeySize, "enc", m)
               /\ UNCHANGED encout
    /\ UNCHANGED <<oracle, enckey, dec, signVars, exchVars>>

\* sm9_kem_encrypt(mpk, id, klen) called directly
KemStart ==
    /\ enc.pc = "new"
    /\ \E klen \in KemLens :
          enc' = sm9_kem_encrypt_enter(enckey, enckey.id, klen, "kem", <<>>)
    /\ UNCHANGED <<oracle, enckey, encout, dec, signVars, exchVars>>

\* one pass of the loop of sm9_kem_encrypt with a successful draw; when K is
\* not all zero the call returns, and sm9_encrypt goes on to seal and encode
KemIterate ==
    /\ enc.pc = "loop"
    /\ enc.iter <= KemRestarts
    /\ \E r \in FnStar, ds \in [1 .. KdfBlocks(enc.klen) -> DigestVals], dh \in DigestVals :
          LET f == sm9_kem_encrypt_iterate(enc, enckey, enckey.id, r, ds)
              kq == sm9_kem_encrypt_queries(enc, enckey, enckey.id, r)
              done == sm9_kem_encrypt_exit(f)
              sealed == sm9_do_encrypt_seal(f.K, f.C, f.m, dh)
              seals == ~mem_is_zero(f.K, f.klen) /\ f.mode = "enc"
              qs == IF seals THEN Append(kq, sm9_do_encrypt_query(f.K, f.m)) ELSE kq
              as == IF seals THEN Append(ds, dh) ELSE ds
          IN  /\ seals \/ dh = 0
              /\ OracleAnswers(oracle, qs, as)
              /\ oracle' = OracleRecord(oracle, qs, as)
              /\ IF mem_is_zero(f.K, f.klen)
                 THEN enc' = f /\ UNCHANGED encout
                 ELSE /\ enc' = done
                      /\ encout' =
                            IF f.mode = "kem"
                            THEN [NoEncOut EXCEPT !.ret = 1, !.C1 = f.C, !.K = f.K]
                            ELSE [ret |-> 1,
                                  der |-> sm9_ciphertext_to_der(SM9_ENC_TYPE_XOR,
                                              sealed.C1, sealed.c2, sealed.c3),
                                  C1 |-> sealed.C1, c2 |-> sealed.c2, c3 |-> sealed.c3,
                                  K |-> f.K, live |-> sealed.live]
    /\ UNCHANGED <<enckey, dec, signVars, exchVars>>

\* the draw of the loop fails
KemRandFail ==
    /\ enc.pc = "loop"
    /\ enc.iter <= KemRestarts
    /\ enc' = sm9_kem_encrypt_rand_fail(enc)
    /\ encout' = [NoEncOut EXCEPT !.ret = -1]
    /\ UNCHANGED <<oracle, enckey, dec, signVars, exchVars>>

\* the ciphertext of sm9_encrypt with one bit of C3 or of C2 changed
TamperedDer(o, tamper) ==
    CASE tamper = "none" -> o.der
      [] tamper = "c3" ->
            sm9_ciphertext_to_der(SM9_ENC_TYPE_XOR, o.C1, o.c2,
                                  [o.c3 EXCEPT ![1] = XorByte(o.c3[1], 1)])
      [] tamper = "c2" ->
            sm9_ciphertext_to_der(SM9_ENC_TYPE_XOR, o.C1,
                                  [o.c2 EXCEPT ![1] = XorByte(o.c2[1], 1)], o.c3)

\* sm9_decrypt(key, id, in, out) on the ciphertext sm9_encrypt produced, as
\* it is or tampered with, with a buffer out or with out = NULL
DecryptOwn ==
    /\ enc.mode = "enc"
    /\ encout.ret = 1
    /\ dec.pc = "new"
    /\ \E tamper \in Tampers, hasout \in BOOLEAN,
          ds \in [1 .. KdfBlocks(EnvelopeKeySize) -> DigestVals], dh \in DigestVals :
          LET in == TamperedDer(encout, tamper)
              d == sm9_ciphertext_from_der(in)
              res == sm9_decrypt(enckey, enckey.id, in, hasout, OutBuf0, ds, dh)
              qs == IF res.step \in {"decode", "length"} THEN <<>>
                    ELSE sm9_do_decrypt_queries(enckey, enckey.id, d.ct, ds)
              as == SubSeq(ds \o <<dh>>, 1, Len(qs))
          IN  /\ tamper = "c2" => Len(encout.c2) > 0
              /\ Len(qs) = 0 => \A i \in DOMAIN ds : ds[i] = 0
              /\ Len(qs) <= Len(ds) => dh = 0
              /\ OracleAnswers(oracle, qs, as)
              /\ oracle' = OracleRecord(oracle, qs, as)
              /\ dec' = [pc |-> "ret", kind |-> "enc", tamper |-> tamper, hasout |-> hasout,
                         ret |-> res.ret, outlen |-> res.outlen, out |-> res.out,
                         step |-> res.step,
                         K |-> IF Len(qs) = 0 THEN <<>>
                               ELSE sm3_kdf_finish(ds, EnvelopeKeySize),
                         live |-> res.live, src |-> DecIdle.src]
    /\ UNCHANGED <<enckey, enc, encout, signVars, exchVars>>

\* sm9_kem_decrypt(key, id, C, klen) on the C of a direct sm9_kem_encrypt
KemDecap ==
    /\ enc.mode = "kem"
    /\ encout.ret = 1
    /\ dec.pc = "new"
    /\ \E ds \in [1 .. KdfBlocks(enc.klen) -> DigestVals] :
          LET res == sm9_kem_decrypt(enckey, enckey.id, encout.C1, enc.klen, ds)
              qs == sm9_kem_decrypt_queries(enckey, enckey.id, encout.C1, enc.klen)
          IN  /\ OracleAnswers(oracle, qs, ds)
              /\ oracle' = OracleRecord(oracle, qs, ds)
              /\ dec' = [DecIdle EXCEPT !.pc = "ret", !.kind = "kem", !.ret = res.ret,
                                        !.K = res.K, !.live = res.live]
    /\ UNCHANGED <<enckey, enc, encout, signVars, exchVars>>

NextEnc ==
    \/ EncryptStart
    \/ KemStart
    \/ KemIterate
    \/ KemRandFail
    \/ DecryptOwn
    \/ KemDecap

SpecEnc == InitEnc /\ [][NextEnc]_vars

(***************************************************************************)
(* The ciphertext decoder, the decryption and the decapsulation on inputs  *)
(* of any shape                                                            *)
(***************************************************************************)
\* SM9_ENC_TYPE_XOR and SM9_ENC_TYPE_ECB
CtTypes == {SM9_ENC_TYPE_XOR, SM9_ENC_TYPE_XOR + 1}
CtPoints == {Pt(1), Pt(2), OffCurve}
CtShapes == {"exact", "short", "long"}
CtTexts == {<<>>, <<1>>, Zeros(SM9_MAX_PLAINTEXT_SIZE + 1)}
CtMutations == {"none", "trailing", "inner_trailing"}

\* a field of the expected length, one byte shorter or one byte longer
Shaped(b, shape) ==
    CASE shape = "exact" -> b
      [] shape = "short" -> SubSeq(b, 1, Len(b) - 1)
      [] shape = "long" -> b \o <<0>>

\* the DER of a ciphertext built field by field, with bytes after the
\* SEQUENCE (trailing) or after CipherText inside it (inner_trailing)
ForgedCiphertextDer(en_type, P, c1shape, d3, c3shape, c2, mut) ==
    LET c1 == Shaped(sm9_z256_point_to_uncompressed_octets(P), c1shape)
        c3 == Shaped(DigestBytes(d3), c3shape)
        body == asn1_int_to_der(en_type) \o asn1_bit_octets_to_der(c1)
                    \o asn1_octet_string_to_der(c3) \o asn1_octet_string_to_der(c2)
    IN  CASE mut = "none" -> asn1_sequence_to_der(body)
          [] mut = "trailing" -> asn1_sequence_to_der(body) \o <<0>>
          [] mut = "inner_trailing" -> asn1_sequence_to_der(body \o <<0>>)

InitCodec ==
    /\ ExchIdle
    /\ oracle = {}
    /\ signkey \in {k \in SignKeys : k.ks = 1}
    /\ sctx = <<>>
    /\ sg = SignIdle
    /\ sigout = [ret |-> 0, sig |-> <<>>]
    /\ vctx = <<>>
    /\ vf = VerifyIdle
    /\ enckey \in EncKeys
    /\ enc = KemIdle
    /\ encout = NoEncOut
    /\ dec = DecIdle

\* sm9_ciphertext_from_der on bytes made by anyone
CiphertextDecode ==
    /\ dec.pc = "new"
    /\ vf.pc = "new"
    /\ \E en_type \in CtTypes, P \in CtPoints, c1shape \in CtShapes, d3 \in DigestVals,
          c3shape \in CtShapes, c2 \in CtTexts, mut \in CtMutations :
          LET in == ForgedCiphertextDer(en_type, P, c1shape, d3, c3shape, c2, mut)
              d == sm9_ciphertext_from_der(in)
          IN  dec' = [DecIdle EXCEPT !.pc = "ret", !.kind = "der", !.ret = d.ret,
                                     !.outlen = Len(d.ct.c2), !.step = "decode",
                                     !.src = CtSource(en_type, P, c1shape, d3, c3shape,
                                                      c2, mut)]
    /\ UNCHANGED <<oracle, enckey, enc, encout, signVars, exchVars>>

\* sm9_decrypt(key, id, in, out) on bytes made by anyone, with a buffer out
\* or with out = NULL
DecryptForged ==
    /\ dec.pc = "new"
    /\ vf.pc = "new"
    /\ \E en_type \in CtTypes, P \in CtPoints, c1shape \in CtShapes, d3 \in DigestVals,
          c3shape \in CtShapes, c2 \in CtTexts, mut \in CtMutations, hasout \in BOOLEAN,
          ds \in [1 .. KdfBlocks(EnvelopeKeySize) -> DigestVals], dh \in DigestVals :
          LET in == ForgedCiphertextDer(en_type, P, c1shape, d3, c3shape, c2, mut)
              d == sm9_ciphertext_from_der(in)
              res == sm9_decrypt(enckey, enckey.id, in, hasout, OutBuf0, ds, dh)
              qs == IF res.step \in {"decode", "length"} THEN <<>>
                    ELSE sm9_do_decrypt_queries(enckey, enckey.id, d.ct, ds)
              as == SubSeq(ds \o <<dh>>, 1, Len(qs))
          IN  /\ Len(qs) = 0 => \A i \in DOMAIN ds : ds[i] = 0
              /\ Len(qs) <= Len(ds) => dh = 0
              /\ OracleAnswers(oracle, qs, as)
              /\ oracle' = OracleRecord(oracle, qs, as)
              /\ dec' = [pc |-> "ret", kind |-> "forged", tamper |-> "none",
                         hasout |-> hasout, ret |-> res.ret, outlen |-> res.outlen,
                         out |-> res.out, step |-> res.step,
                         K |-> IF Len(qs) = 0 THEN <<>>
                               ELSE sm3_kdf_finish(ds, EnvelopeKeySize),
                         live |-> res.live,
                         src |-> CtSource(en_type, P, c1shape, d3, c3shape, c2, mut)]
    /\ UNCHANGED <<enckey, enc, encout, signVars, exchVars>>

\* sm9_kem_decrypt(key, id, C, klen) on a C made by anyone
KemDecapForged ==
    /\ dec.pc = "new"
    /\ vf.pc = "new"
    /\ \E C \in CtPoints, klen \in KemLens :
        \E ds \in [1 .. KdfBlocks(klen) -> DigestVals] :
          LET res == sm9_kem_decrypt(enckey, enckey.id, C, klen, ds)
              qs == sm9_kem_decrypt_queries(enckey, enckey.id, C, klen)
          IN  /\ OracleAnswers(oracle, qs, ds)
              /\ oracle' = OracleRecord(oracle, qs, ds)
              /\ dec' = [DecIdle EXCEPT !.pc = "ret", !.kind = "kemforged",
                                        !.ret = res.ret, !.K = res.K, !.live = res.live,
                                        !.outlen = klen, !.step = "kem",
                                        !.src = CtSource(0, C, "exact", 0, "exact", <<>>,
                                                         "none")]
    /\ UNCHANGED <<enckey, enc, encout, signVars, exchVars>>

NextCodec ==
    \/ CiphertextDecode
    \/ DecryptForged
    \/ KemDecapForged
    \/ (dec.pc = "new" /\ VerifyInit)
    \/ VerifyUpdate
    \/ VerifyForged

SpecCodec == InitCodec /\ [][NextCodec]_vars

(***************************************************************************)
(* State machine of the key exchange between A (IDA) and B (IDB)           *)
(***************************************************************************)
ExchKeys ==
    {[ke |-> ke, Ppube |-> Pt(ke),
      deA |-> KGC_derive_enc(ke, IDA, SM9_HID_EXCH),
      deB |-> KGC_derive_enc(ke, IDB, SM9_HID_EXCH)] :
        ke \in {k \in FnStar : /\ (sm9_z256_hash1(IDA, SM9_HID_EXCH) + k) % N # 0
                               /\ (sm9_z256_hash1(IDB, SM9_HID_EXCH) + k) % N # 0}}

ExchLens == {1, SM3_DIGEST_SIZE + 1}

InitExch ==
    /\ SignIdleVars /\ EncIdle
    /\ oracle = {}
    /\ exchkey \in ExchKeys
    /\ xa = ExchAIdle
    /\ xb = ExchBIdle

\* A calls sm9_exch_step_1A(mpk, IDB) and the draw succeeds
Exch1A ==
    /\ xa.pc = "new"
    /\ \E drawn \in FnStar : xa' = sm9_exch_step_1A(xa, exchkey, IDB, drawn)
    /\ UNCHANGED <<oracle, exchkey, xb, signVars, encVars>>

\* the draw of sm9_exch_step_1A fails
Exch1ARandFail ==
    /\ xa.pc = "new"
    /\ xa' = sm9_exch_step_1A_rand_fail(xa, exchkey, IDB)
    /\ UNCHANGED <<oracle, exchkey, xb, signVars, encVars>>

\* B calls sm9_exch_step_1B with the RA of A, or with a pair off the curve
Exch1BStart ==
    /\ xa.pc = "sent"
    /\ xb.pc = "new"
    /\ \E RA \in {xa.RA, OffCurve}, klen \in ExchLens :
          xb' = sm9_exch_step_1B_enter(exchkey, IDA, RA, klen)
    /\ UNCHANGED <<oracle, exchkey, xa, signVars, encVars>>

\* one pass of the loop of sm9_exch_step_1B with a successful draw
Exch1BIterate ==
    /\ xb.pc = "loop"
    /\ xb.iter <= ExchRestarts
    /\ \E drawn \in FnStar, ds \in [1 .. KdfBlocks(xb.klen) -> DigestVals] :
          LET f == sm9_exch_step_1B_iterate(xb, exchkey, exchkey, drawn, ds)
              qs == sm9_exch_step_1B_queries(xb, exchkey, IDA, IDB, exchkey, drawn)
              as == IF Len(qs) = 0 THEN <<>> ELSE ds
          IN  /\ Len(qs) = 0 => \A i \in DOMAIN ds : ds[i] = 0
              /\ OracleAnswers(oracle, qs, as)
              /\ oracle' = OracleRecord(oracle, qs, as)
              /\ xb' = IF f.pc = "ret" \/ mem_is_zero(f.sk, f.klen)
                       THEN f
                       ELSE sm9_exch_step_1B_exit(f)
    /\ UNCHANGED <<exchkey, xa, signVars, encVars>>

\* the draw of the loop of sm9_exch_step_1B fails
Exch1BRandFail ==
    /\ xb.pc = "loop"
    /\ xb.iter <= ExchRestarts
    /\ xb' = sm9_exch_step_1B_rand_fail(xb)
    /\ UNCHANGED <<oracle, exchkey, xa, signVars, encVars>>

\* A calls sm9_exch_step_2A with its rA, RA and the RB of B, or with a pair
\* off the curve, and the klen of B
Exch2AStart ==
    /\ xa.pc = "sent"
    /\ xb.pc = "ret"
    /\ xb.ret = 1
    /\ \E RB \in {xb.RB, OffCurve} :
          xa' = [xa EXCEPT !.pc = "loop", !.RB = RB, !.klen = xb.klen]
    /\ UNCHANGED <<oracle, exchkey, xb, signVars, encVars>>

\* one pass of the loop of sm9_exch_step_2A
Exch2AIterate ==
    /\ xa.pc = "loop"
    /\ xa.iter <= ExchRestarts
    /\ \E ds \in [1 .. KdfBlocks(xa.klen) -> DigestVals] :
          LET f == sm9_exch_step_2A_iterate(xa, exchkey, exchkey, ds)
              qs == sm9_exch_step_2A_queries(xa, exchkey, IDA, IDB, exchkey)
              as == IF Len(qs) = 0 THEN <<>> ELSE ds
          IN  /\ Len(qs) = 0 => \A i \in DOMAIN ds : ds[i] = 0
              /\ OracleAnswers(oracle, qs, as)
              /\ oracle' = OracleRecord(oracle, qs, as)
              /\ xa' = IF f.pc = "ret" \/ mem_is_zero(f.sk, f.klen)
                       THEN f
                       ELSE sm9_exch_step_2A_exit(f)
    /\ UNCHANGED <<exchkey, xb, signVars, encVars>>

NextExch ==
    \/ Exch1A
    \/ Exch1ARandFail
    \/ Exch1BStart
    \/ Exch1BIterate
    \/ Exch1BRandFail
    \/ Exch2AStart
    \/ Exch2AIterate

SpecExch == InitExch /\ [][NextExch]_vars

(***************************************************************************)
(* Properties                                                              *)
(***************************************************************************)
\* C1: the signature sm9_sign_finish produced is accepted (1) by
\* sm9_verify_finish on the same message, identity and master public key,
\* whatever the draws were and however often the signing loop restarted
C1_SignVerifyRoundTrip ==
    (vf.pc = "ret" /\ vf.src.kind = "own" /\ vctx = sctx) => vf.ret = 1

\* C2: sm9_kem_decrypt on the C1 of sm9_kem_encrypt, with the matching key,
\* identity and klen, succeeds and outputs the K of sm9_kem_encrypt, also
\* when the encapsulation loop restarted
C2_KemConsistency ==
    (dec.pc = "ret" /\ dec.kind = "kem") => (dec.ret = 1 /\ dec.K = encout.K)

\* C3: sm9_decrypt on the untouched output of sm9_encrypt returns 1, sets
\* *outlen to |m| and writes exactly m, for every sequence of draws
C3_EncryptDecryptRoundTrip ==
    (dec.pc = "ret" /\ dec.kind = "enc" /\ dec.tamper = "none" /\ dec.hasout) =>
        /\ dec.ret = 1
        /\ dec.outlen = Len(enc.m)
        /\ SubSeq(dec.out, 1, Len(enc.m)) = enc.m

\* C4: after 1A, 1B and 2A with honest delivery both session keys are equal
\* and have length klen, also when the loop of B restarted
C4_KeyAgreement ==
    (xa.pc = "ret" /\ xa.ret = 1 /\ xb.RA = xa.RA /\ xa.RB = xb.RB) =>
        (xa.sk = xb.sk /\ Len(xa.sk) = xa.klen /\ Len(xb.sk) = xb.klen)

\* C5: no call of sm9_decrypt, with or without an output buffer, returns 1
\* for a ciphertext whose tag does not match: the C3 of a ciphertext made
\* without a restart, with one bit changed, is not the HMAC of its C2
C5_NoSuccessOnBadTag ==
    (dec.pc = "ret" /\ dec.kind = "enc" /\ dec.tamper = "c3" /\ enc.iter = 1) =>
        dec.ret # 1

\* C6: sm9_verify_finish returns 1 when the signature decodes and h2 = h,
\* 0 when it decodes and h2 # h, and a negative value when the DER is
\* damaged, a field has the wrong length or the point does not decode
C6_ThreeOutcomes ==
    (vf.pc = "ret" /\ vf.src.kind = "forged") =>
        LET malformed == vf.src.mut # "none" \/ ~sm9_z256_point_is_on_curve(vf.src.S)
            decodes == ~malformed /\ vf.src.h \in Fn
        IN  /\ malformed => (vf.ret < 0 /\ ~vf.called)
            /\ (decodes /\ vf.dv.h2 = vf.src.h) => vf.ret = 1
            /\ (decodes /\ vf.dv.h2 # vf.src.h) => vf.ret = 0

\* a well-formed signature of another h than the message has: reported as 0
C6_Witness_Mismatch ==
    /\ vf.pc = "ret" /\ vf.src.kind = "forged" /\ vf.src.mut = "none"
    /\ sm9_z256_point_is_on_curve(vf.src.S) /\ vf.src.h \in Fn
    /\ vf.called /\ vf.dv.h2 # vf.src.h /\ vf.ret = 0

\* C7: for a signature whose h is outside [1, N-1] or whose S is not on the
\* curve, sm9_do_verify does not return 1 and uses neither h nor S in a
\* pairing or an exponentiation
C7_StepOneFirst ==
    (vf.pc = "ret" /\ vf.called
        /\ (vf.src.h \notin FnStar \/ ~sm9_z256_point_is_on_curve(vf.src.S))) =>
        (vf.ret # 1 /\ vf.dv.used = {})

\* C8: the rA that sm9_exch_step_1A hands back and the rB that the loop of
\* sm9_exch_step_1B works with are the scalars their draws returned
C8_DrawnScalars ==
    /\ xa.pc = "sent" => xa.rA = xa.drawn
    /\ (xb.pc = "loop" /\ xb.iter > 0) => xb.rB = xb.drawn

\* C9: when one of the calls has returned, with success or failure, none of
\* its locals that held a secret scalar, a pairing value, its serialization
\* or an SM3/KDF state is left uncleared (cbuf, ta, tb hold public points)
C9_ZeroizedOnReturn ==
    /\ sg.pc = "ret" => sg.live = {}
    /\ (vf.pc = "ret" /\ vf.called) => vf.dv.live = {}
    /\ enc.pc = "ret" => enc.live \ {"cbuf"} = {}
    /\ (dec.pc = "ret" /\ dec.kind = "kem") => dec.live \ {"cbuf"} = {}
    /\ xb.pc = "ret" => xb.live \ {"ta", "tb"} = {}
    /\ (xa.pc = "ret" /\ xa.iter > 0) => xa.live \ {"ta", "tb"} = {}

\* C10: none of the three loops goes round again once it has rejected
\* SafetyBound values; it returns a fatal error instead
C10_BoundedResample ==
    /\ ~(sg.pc = "loop" /\ sg.iter >= SafetyBound)
    /\ ~(enc.pc = "loop" /\ enc.iter >= SafetyBound)
    /\ ~(xb.pc = "loop" /\ xb.iter >= SafetyBound)

\* C11: the loop body of sm9_exch_step_2A runs once: when the sk it derived
\* is all zero the call has returned a failure, and it never derives sk a
\* second time from the same rA, RA, RB and klen
C11_NoRestartIn2A ==
    /\ xa.iter <= 1
    /\ (xa.iter >= 1 /\ mem_is_zero(xa.sk, xa.klen)) =>
           (xa.pc = "ret" /\ xa.ret < 0)

\* C12: sm9_ciphertext_from_der returns a failure when EnType is not 0, when
\* C1 is not 65 bytes, when C3 is not 32 bytes or when bytes follow CipherText
\* inside the SEQUENCE; it returns 1 exactly when none of these is the case
\* and C1 decodes to a point
C12_DecoderRejections ==
    (dec.pc = "ret" /\ dec.kind = "der") =>
        LET four == /\ dec.src.en_type = SM9_ENC_TYPE_XOR
                    /\ dec.src.c1shape = "exact"
                    /\ dec.src.c3shape = "exact"
                    /\ dec.src.mut # "inner_trailing"
        IN  /\ ~four => dec.ret < 0
            /\ dec.ret = 1 <=> (four /\ sm9_z256_point_is_on_curve(dec.src.P))

\* a ciphertext that is well-formed but for its EnType of 1: rejected
C12_Witness_EnType ==
    /\ dec.pc = "ret" /\ dec.kind = "der"
    /\ dec.src.en_type # SM9_ENC_TYPE_XOR
    /\ dec.src.c1shape = "exact" /\ dec.src.c3shape = "exact"
    /\ dec.src.mut = "none" /\ sm9_z256_point_is_on_curve(dec.src.P)
    /\ dec.ret = -1

\* C13: sm9_verify_finish returns an error, without calling sm9_do_verify, for
\* a signature with bytes after the SEQUENCE or after S inside it, and
\* sm9_decrypt returns an error, without calling sm9_do_decrypt and without
\* writing to out, for a ciphertext with bytes after the SEQUENCE
C13_TrailingRejected ==
    /\ (vf.pc = "ret" /\ vf.src.kind = "forged"
            /\ vf.src.mut \in {"trailing", "inner_trailing"}) =>
           (vf.ret < 0 /\ ~vf.called)
    /\ (dec.pc = "ret" /\ dec.kind = "forged" /\ dec.src.mut = "trailing") =>
           (dec.ret < 0 /\ dec.step = "decode" /\ dec.out = OutBuf0)

\* a ciphertext that decodes, followed by one byte, handed to sm9_decrypt
\* with a buffer: rejected
C13_Witness_Trailing ==
    /\ dec.pc = "ret" /\ dec.kind = "forged" /\ dec.hasout
    /\ dec.src.mut = "trailing"
    /\ dec.src.en_type = SM9_ENC_TYPE_XOR
    /\ dec.src.c1shape = "exact" /\ dec.src.c3shape = "exact"
    /\ sm9_z256_point_is_on_curve(dec.src.P)
    /\ Len(dec.src.c2) = SM9_MAX_PLAINTEXT_SIZE
    /\ dec.ret = -1

\* C14: after every pass of the loop of sm9_do_sign, the first or a later
\* one, w is g^r for g = e(Ppub-s, P1) and the r drawn in that pass, and the
\* state hashed for h holds the caller's absorbed input followed by that w
\* and the counter, nothing of an earlier pass
C14_IterationsIndependent ==
    sg.iter > 0 =>
        /\ sg.w = sm9_z256_fp12_pow(sm9_z256_pairing(signkey.Ppubs, Pt(1)), sg.drawn)
        /\ sg.ctx = sm3_finish_ctx(sm3_update(
                        sm3_update(sctx, sm9_z256_fp12_to_bytes(sg.w)), ct1))

\* C15: when sm9_encrypt succeeded for a plaintext of mlen bytes, the
\* mlen + 32 bytes K1 || K2 it used are not all zero; and when the c2len + 32
\* bytes sm9_do_decrypt uses are all zero, it fails
C15_UsedKeyNonzero ==
    /\ (enc.mode = "enc" /\ encout.ret = 1) =>
           ~mem_is_zero(encout.K, Len(enc.m) + SM3_HMAC_SIZE)
    /\ (dec.pc = "ret" /\ dec.kind = "enc" /\ dec.K # <<>>
            /\ mem_is_zero(dec.K, dec.outlen + SM3_HMAC_SIZE)) => dec.ret < 0

\* C16: for a C that is not on the curve sm9_kem_decrypt returns a failure
\* and writes no key
C16_DecapValidatesPoint ==
    (dec.pc = "ret" /\ dec.kind = "kemforged"
        /\ ~sm9_z256_point_is_on_curve(dec.src.P)) =>
        (dec.ret < 0 /\ dec.K = <<>>)

\* C17: when sm9_do_encrypt or sm9_do_decrypt has returned, whatever the
\* outcome, the key buffer K (k) and the computed mac hold nothing uncleared
C17_EnvelopeBuffersCleared ==
    /\ (enc.pc = "ret" /\ enc.mode = "enc") => encout.live \cap {"K"} = {}
    /\ (dec.pc = "ret" /\ dec.kind = "enc") => dec.live \cap {"k", "mac"} = {}

\* the HMAC-SM3 tags computed so far
ComputedTags == {e[2] : e \in {x \in oracle : x[1][1] = HMAC_QUERY}}

\* C18: when the tag sm9_do_decrypt computed differs from C3, sm9_decrypt
\* returns a failure and out is as the caller passed it; out is written only
\* by a call that returned 1
C18_NoPlaintextOnBadTag ==
    (dec.pc = "ret" /\ dec.kind = "forged" /\ dec.hasout) =>
        /\ (\A t \in ComputedTags : DigestBytes(t) # Shaped(DigestBytes(dec.src.d3),
                                                             dec.src.c3shape)) =>
               (dec.ret < 0 /\ dec.out = OutBuf0)
        /\ dec.out # OutBuf0 => dec.ret = 1

\* a ciphertext of one byte that decodes and passes the KEM, with a C3 that is
\* not the tag computed: rejected at the comparison
C18_Witness_BadTag ==
    /\ dec.pc = "ret" /\ dec.kind = "forged" /\ dec.hasout
    /\ Len(dec.src.c2) = SM9_MAX_PLAINTEXT_SIZE
    /\ dec.src.c3shape = "exact"
    /\ ComputedTags # {}
    /\ dec.src.d3 \notin ComputedTags
    /\ dec.step = "mac" /\ dec.ret = -1 /\ dec.out = OutBuf0

\* C19: sm9_sign_finish and sm9_verify_finish leave the caller's context as
\* the last update left it, and a second sm9_verify_finish with the same
\* arguments returns what the first returned
C19_FinishKeepsContext ==
    [][/\ (sg.pc \in {"absorb", "loop"} /\ sg'.pc \in {"loop", "ret"}) => sctx' = sctx
       /\ (vf.pc \in {"absorb", "ret"} /\ vf'.pc = "ret") => vctx' = vctx
       /\ vf'.again # <<>> => vf'.again[1] = vf'.ret]_vars

\* a signature that decodes, verified twice over a context that absorbed a
\* message byte: sm9_do_verify ran and both calls returned the same
C19_Witness_Twice ==
    /\ vf.pc = "ret" /\ vf.called /\ Len(vctx) > 1
    /\ vf.again = <<vf.ret>>

====
